---- MODULE Spec2Model ----
(***************************************************************************)
(* Model of the markdown block scanner parse_md, its helpers               *)
(* _parse_table_row and _is_special_line, and the inline normaliser        *)
(* strip_inline_md of md_converter.py.                                     *)
(*                                                                         *)
(* A string is a sequence of one-character strings; a document is the      *)
(* sequence of its lines (text.split("\n")), so no line holds a newline.   *)
(* The cursor i and every line index are 0-based as in the source.         *)
(***************************************************************************)
EXTENDS Integers, Sequences, FiniteSets, TLC

\* Bounds of the model.
MaxLines == 3
MaxIter == 6
MaxFrags == 3

----------------------------------------------------------------------------
\* Character classes and string helpers.

WS == {" ", "\t"}
Digit == {"0", "1", "2", "3", "4", "5", "6", "7", "8", "9"}
Marker == {"-", "*", "+"}
HrChar == {"*", "-", "_"}
SepClass == WS \cup {"-", ":", "|"}
\* the backtick character (the string syntax of TLA+ has no literal for it)
BT == "bt"
Fence == <<BT, BT, BT>>

Min(S) == CHOOSE x \in S : \A y \in S : x <= y
Max(S) == CHOOSE x \in S : \A y \in S : x >= y

\* every character of s[a..b] belongs to the class C
AllIn(s, a, b, C) == \A k \in a..b : s[k] \in C

\* str.strip()
StripWs(s) ==
  LET idx == {k \in 1..Len(s) : s[k] \notin WS}
  IN  IF idx = {} THEN <<>> ELSE SubSeq(s, Min(idx), Max(idx))

\* str.startswith(p)
StartsWith(s, p) == Len(s) >= Len(p) /\ SubSeq(s, 1, Len(p)) = p

\* "|" in line
HasPipe(line) == \E k \in 1..Len(line) : line[k] = "|"

\* not line.strip()
BlankLine(line) == StripWs(line) = <<>>

\* sep.join(parts)
RECURSIVE Join(_, _)
Join(parts, sep) ==
  IF parts = <<>> THEN <<>>
  ELSE IF Len(parts) = 1 THEN parts[1]
  ELSE parts[1] \o sep \o Join(Tail(parts), sep)

----------------------------------------------------------------------------
\* The regular expressions of the scanner.  A pattern with groups is modelled
\* by the set of ways its quantifiers can split the line; the match the
\* engine reports is the greediest one.

\* ^(#{1,6})\s+(.+)$ : <<h, w>> = number of '#', number of blanks after them
HeadingSplits(line) ==
  {hw \in (1..6) \X (1..Len(line)) :
      /\ hw[1] + hw[2] < Len(line)
      /\ AllIn(line, 1, hw[1], {"#"})
      /\ AllIn(line, hw[1] + 1, hw[1] + hw[2], WS)}

HeadingMatch(line) == HeadingSplits(line) # {}

HeadingGroups(line) ==
  LET S == HeadingSplits(line)
      h == Max({hw[1] : hw \in S})
      w == Max({hw[2] : hw \in {x \in S : x[1] = h}})
  IN  [level |-> h, text |-> SubSeq(line, h + w + 1, Len(line))]

\* ^#{1,6}\s+ (the heading test of _is_special_line)
HeadingPrefix(line) ==
  \E h \in 1..6 : h + 1 <= Len(line) /\ AllIn(line, 1, h, {"#"}) /\ line[h + 1] \in WS

\* ^(\*{3,}|-{3,}|_{3,})\s*$
HrMatch(line) ==
  \E c \in HrChar : \E n \in 3..Len(line) :
      AllIn(line, 1, n, {c}) /\ AllIn(line, n + 1, Len(line), WS)

\* line.strip().startswith("```")
FenceMatch(line) == StartsWith(StripWs(line), Fence)

\* ^\|?[\s\-:|]+\| matched against the line (a prefix match)
SepMatch(line) ==
  \E o \in {0, 1} : \E c \in 1..Len(line) :
      /\ o + c + 1 <= Len(line)
      /\ (o = 1 => line[1] = "|")
      /\ AllIn(line, o + 1, o + c, SepClass)
      /\ line[o + c + 1] = "|"

\* "|" in line and i + 1 < len(lines) and re.match(sep, lines[i + 1])
TableMatch(ls, j) ==
  /\ HasPipe(ls[j + 1])
  /\ j + 1 < Len(ls)
  /\ SepMatch(ls[j + 2])

\* ^(\s*)([-*+])\s+
UListPrefix(line) ==
  \E n \in 0..Len(line) :
      /\ n + 2 <= Len(line)
      /\ AllIn(line, 1, n, WS)
      /\ line[n + 1] \in Marker
      /\ line[n + 2] \in WS

\* ^(\s*)([-*+])\s+(.+)$ : <<n, w>> = indentation, blanks after the marker
UListSplits(line) ==
  {nw \in (0..Len(line)) \X (1..Len(line)) :
      /\ nw[1] + 1 + nw[2] < Len(line)
      /\ AllIn(line, 1, nw[1], WS)
      /\ line[nw[1] + 1] \in Marker
      /\ AllIn(line, nw[1] + 2, nw[1] + 1 + nw[2], WS)}

\* ^(\s*)\d+\.\s+
OListPrefix(line) ==
  \E n \in 0..Len(line) : \E d \in 1..Len(line) :
      /\ n + d + 2 <= Len(line)
      /\ AllIn(line, 1, n, WS)
      /\ AllIn(line, n + 1, n + d, Digit)
      /\ line[n + d + 1] = "."
      /\ line[n + d + 2] \in WS

\* ^(\s*)\d+\.\s+(.+)$ : <<n, d, w>> = indentation, digits, blanks after '.'
OListSplits(line) ==
  {ndw \in (0..Len(line)) \X (1..Len(line)) \X (1..Len(line)) :
      /\ ndw[1] + ndw[2] + 1 + ndw[3] < Len(line)
      /\ AllIn(line, 1, ndw[1], WS)
      /\ AllIn(line, ndw[1] + 1, ndw[1] + ndw[2], Digit)
      /\ line[ndw[1] + ndw[2] + 1] = "."
      /\ AllIn(line, ndw[1] + ndw[2] + 2, ndw[1] + ndw[2] + 1 + ndw[3], WS)}

\* (indent, text) of a list line: (len(m.group(1)), m.group(n).strip())
UListItem(line) ==
  LET S == UListSplits(line)
      n == Max({x[1] : x \in S})
      w == Max({x[2] : x \in {y \in S : y[1] = n}})
  IN  <<n, StripWs(SubSeq(line, n + w + 2, Len(line)))>>

OListItem(line) ==
  LET S == OListSplits(line)
      n == Max({x[1] : x \in S})
      d == Max({x[2] : x \in {y \in S : y[1] = n}})
      w == Max({x[3] : x \in {y \in S : y[1] = n /\ y[2] = d}})
  IN  <<n, StripWs(SubSeq(line, n + d + w + 2, Len(line)))>>

----------------------------------------------------------------------------
\* _parse_table_row

\* line.split("|")
RECURSIVE SplitPipe(_, _)
SplitPipe(s, cur) ==
  IF s = <<>> THEN <<cur>>
  ELSE IF Head(s) = "|" THEN <<cur>> \o SplitPipe(Tail(s), <<>>)
  ELSE SplitPipe(Tail(s), Append(cur, Head(s)))

\* ParseTableRow with the cells left untrimmed
ParseTableRowUntrimmed(line) ==
  LET s0 == StripWs(line)
      s1 == IF StartsWith(s0, <<"|">>) THEN Tail(s0) ELSE s0
      s2 == IF s1 # <<>> /\ s1[Len(s1)] = "|" THEN SubSeq(s1, 1, Len(s1) - 1) ELSE s1
  IN  SplitPipe(s2, <<>>)

ParseTableRow(line) ==
  LET s0 == StripWs(line)
      s1 == IF StartsWith(s0, <<"|">>) THEN Tail(s0) ELSE s0
      s2 == IF s1 # <<>> /\ s1[Len(s1)] = "|" THEN SubSeq(s1, 1, Len(s1) - 1) ELSE s1
      cells == SplitPipe(s2, <<>>)
  IN  [k \in 1..Len(cells) |-> StripWs(cells[k])]

\* _is_special_line(line, lines, i)
IsSpecialLine(line, ls, j) ==
  \/ HeadingPrefix(line)
  \/ HrMatch(line)
  \/ FenceMatch(line)
  \/ TableMatch(ls, j)
  \/ UListPrefix(line)
  \/ OListPrefix(line)

----------------------------------------------------------------------------
\* The inner loops of parse_md: each returns the cursor and the accumulator
\* it leaves behind.

\* CodeLoop with the captured line trimmed
RECURSIVE CodeLoopTrimmed(_, _, _)
CodeLoopTrimmed(ls, j, acc) ==
  IF j < Len(ls) /\ ~FenceMatch(ls[j + 1])
  THEN CodeLoopTrimmed(ls, j + 1, Append(acc, StripWs(ls[j + 1])))
  ELSE [i |-> j, code_lines |-> acc]

\* while i < len(lines) and not lines[i].strip().startswith("```")
RECURSIVE CodeLoop(_, _, _)
CodeLoop(ls, j, acc) ==
  IF j < Len(ls) /\ ~FenceMatch(ls[j + 1])
  THEN CodeLoop(ls, j + 1, Append(acc, ls[j + 1]))
  ELSE [i |-> j, code_lines |-> acc]

\* while i < len(lines) and "|" in lines[i] and lines[i].strip()
RECURSIVE TableLoop(_, _, _)
TableLoop(ls, j, acc) ==
  IF j < Len(ls) /\ HasPipe(ls[j + 1]) /\ ~BlankLine(ls[j + 1])
  THEN TableLoop(ls, j + 1, Append(acc, ParseTableRow(ls[j + 1])))
  ELSE [i |-> j, table_rows |-> acc]

\* UListLoop with the run also ended by a change of indentation
RECURSIVE UListLoopSameIndent(_, _, _)
UListLoopSameIndent(ls, j, acc) ==
  IF j < Len(ls) /\ UListPrefix(ls[j + 1])
  THEN IF UListSplits(ls[j + 1]) = {}
       THEN [i |-> j, list_items |-> acc, ok |-> FALSE]
       ELSE IF acc # <<>> /\ UListItem(ls[j + 1])[1] # acc[1][1]
       THEN [i |-> j, list_items |-> acc, ok |-> TRUE]
       ELSE UListLoopSameIndent(ls, j + 1, Append(acc, UListItem(ls[j + 1])))
  ELSE [i |-> j, list_items |-> acc, ok |-> TRUE]

\* while i < len(lines) and re.match(unordered, lines[i]); m.group on a
\* failed match raises AttributeError (ok = FALSE)
RECURSIVE UListLoop(_, _, _)
UListLoop(ls, j, acc) ==
  IF j < Len(ls) /\ UListPrefix(ls[j + 1])
  THEN IF UListSplits(ls[j + 1]) = {}
       THEN [i |-> j, list_items |-> acc, ok |-> FALSE]
       ELSE UListLoop(ls, j + 1, Append(acc, UListItem(ls[j + 1])))
  ELSE [i |-> j, list_items |-> acc, ok |-> TRUE]

\* while i < len(lines) and re.match(ordered, lines[i])
RECURSIVE OListLoop(_, _, _)
OListLoop(ls, j, acc) ==
  IF j < Len(ls) /\ OListPrefix(ls[j + 1])
  THEN IF OListSplits(ls[j + 1]) = {}
       THEN [i |-> j, list_items |-> acc, ok |-> FALSE]
       ELSE OListLoop(ls, j + 1, Append(acc, OListItem(ls[j + 1])))
  ELSE [i |-> j, list_items |-> acc, ok |-> TRUE]

\* ParaLoop with the cursor left after the line that stopped the paragraph
RECURSIVE ParaLoopSkipStop(_, _, _)
ParaLoopSkipStop(ls, j, acc) ==
  IF j < Len(ls) /\ ~BlankLine(ls[j + 1]) /\ ~IsSpecialLine(ls[j + 1], ls, j)
  THEN ParaLoopSkipStop(ls, j + 1, Append(acc, StripWs(ls[j + 1])))
  ELSE [i |-> IF j < Len(ls) THEN j + 1 ELSE j, para_lines |-> acc]

\* while i < len(lines) and lines[i].strip() and not _is_special_line(...)
RECURSIVE ParaLoop(_, _, _)
ParaLoop(ls, j, acc) ==
  IF j < Len(ls) /\ ~BlankLine(ls[j + 1]) /\ ~IsSpecialLine(ls[j + 1], ls, j)
  THEN ParaLoop(ls, j + 1, Append(acc, StripWs(ls[j + 1])))
  ELSE [i |-> j, para_lines |-> acc]

\* Dispatch with the table test ahead of the heading test
DispatchTableFirst(ls, j) ==
  IF BlankLine(ls[j + 1]) THEN "blank"
  ELSE IF TableMatch(ls, j) THEN "table"
  ELSE IF HeadingMatch(ls[j + 1]) THEN "heading"
  ELSE IF HrMatch(ls[j + 1]) THEN "hr"
  ELSE IF FenceMatch(ls[j + 1]) THEN "code"
  ELSE IF UListPrefix(ls[j + 1]) THEN "ulist"
  ELSE IF OListPrefix(ls[j + 1]) THEN "olist"
  ELSE "paragraph"

\* The if-chain of one iteration of the main loop: the branch taken at line j.
Dispatch(ls, j) ==
  IF BlankLine(ls[j + 1]) THEN "blank"
  ELSE IF HeadingMatch(ls[j + 1]) THEN "heading"
  ELSE IF HrMatch(ls[j + 1]) THEN "hr"
  ELSE IF FenceMatch(ls[j + 1]) THEN "code"
  ELSE IF TableMatch(ls, j) THEN "table"
  ELSE IF UListPrefix(ls[j + 1]) THEN "ulist"
  ELSE IF OListPrefix(ls[j + 1]) THEN "olist"
  ELSE "paragraph"

\* MDBlock(kind, content, level=0)
MDBlock(kind, content, level) == [kind |-> kind, content |-> content, level |-> level]

----------------------------------------------------------------------------
\* strip_inline_md: eight re.sub calls, each one left-to-right pass that
\* replaces every non-overlapping match.  '.' matches any character but the
\* newline, \s matches the newline too, and the first and last patterns
\* ignore case.

NL == "\n"
WSNL == WS \cup {NL}

\* the pattern of each substitution, in the order of the source
Rules == <<"br", "bold_star", "bold_under", "italic_star", "italic_under",
           "code", "link", "anchor">>

\* the literal d stands at position p of s
LitAt(s, p, d) == p >= 1 /\ p + Len(d) - 1 <= Len(s) /\ SubSeq(s, p, p + Len(d) - 1) = d

\* the literal d stands at position p of s, letter case ignored
FoldCase(c) ==
  IF c = "A" THEN "a" ELSE IF c = "B" THEN "b" ELSE IF c = "R" THEN "r" ELSE c
LitAtNoCase(s, p, d) ==
  /\ p >= 1
  /\ p + Len(d) - 1 <= Len(s)
  /\ \A k \in 1..Len(d) : FoldCase(s[p + k - 1]) = d[k]

\* s[a..b] holds no newline ('.' matches each of its characters)
NoNewline(s, a, b) == \A k \in a..b : s[k] # NL

\* <br\s*/?> at p: the position of its last character, 0 if it does not match
BrEnd(s, p) ==
  IF ~LitAtNoCase(s, p, <<"<", "b", "r">>) THEN 0
  ELSE LET S == {k \in (p + 3)..Len(s) : s[k] \notin WSNL}
           q == IF S = {} THEN Len(s) + 1 ELSE Min(S)
       IN  IF LitAt(s, q, <<"/", ">">>) THEN q + 1
           ELSE IF LitAt(s, q, <<">">>) THEN q
           ELSE 0

\* d(.+?)d at p for a delimiter d: the position where the closing d starts,
\* 0 if it does not match
DelimClose(s, p, d) ==
  IF ~LitAt(s, p, d) THEN 0
  ELSE LET Q == {q \in (p + Len(d) + 1)..Len(s) :
                   LitAt(s, q, d) /\ NoNewline(s, p + Len(d), q - 1)}
       IN  IF Q = {} THEN 0 ELSE Min(Q)

\* \[(.+?)\]\(.+?\) at p: <<q, r>> = positions of ']' and of the closing ')',
\* <<0, 0>> if it does not match
LinkEnds(s, p) ==
  IF ~LitAt(s, p, <<"[">>) THEN <<0, 0>>
  ELSE LET close(q) == {r \in (q + 3)..Len(s) : s[r] = ")" /\ NoNewline(s, q + 2, r - 1)}
           Q == {q \in (p + 2)..Len(s) :
                   /\ LitAt(s, q, <<"]", "(">>)
                   /\ NoNewline(s, p + 1, q - 1)
                   /\ close(q) # {}}
       IN  IF Q = {} THEN <<0, 0>> ELSE <<Min(Q), Min(close(Min(Q)))>>

\* <a\s[^>]*?>(.*?)</a> at p: <<g, e>> = position of the '>' of the opening
\* tag and position where </a> starts, <<0, 0>> if it does not match
AnchorEnds(s, p) ==
  IF ~(LitAtNoCase(s, p, <<"<", "a">>) /\ p + 2 <= Len(s) /\ s[p + 2] \in WSNL)
  THEN <<0, 0>>
  ELSE LET G == {g \in (p + 3)..Len(s) : s[g] = ">"}
           g == IF G = {} THEN 0 ELSE Min(G)
           E == {e \in (g + 1)..Len(s) :
                   LitAtNoCase(s, e, <<"<", "/", "a", ">">>) /\ NoNewline(s, g + 1, e - 1)}
       IN  IF G = {} \/ E = {} THEN <<0, 0>> ELSE <<g, Min(E)>>

Delim(rule) ==
  CASE rule = "bold_star" -> <<"*", "*">>
    [] rule = "bold_under" -> <<"_", "_">>
    [] rule = "italic_star" -> <<"*">>
    [] rule = "italic_under" -> <<"_">>
    [] rule = "code" -> <<BT>>

\* the match of a rule at position p: its last position (0: no match) and
\* the text that replaces it
MatchAt(rule, s, p) ==
  CASE rule = "br" ->
         [last |-> BrEnd(s, p), repl |-> <<NL>>]
    [] rule = "link" ->
         LET m == LinkEnds(s, p)
         IN  [last |-> m[2], repl |-> SubSeq(s, p + 1, m[1] - 1)]
    [] rule = "anchor" ->
         LET m == AnchorEnds(s, p)
         IN  [last |-> IF m[2] = 0 THEN 0 ELSE m[2] + 3, repl |-> SubSeq(s, m[1] + 1, m[2] - 1)]
    [] OTHER ->
         LET d == Delim(rule)
             q == DelimClose(s, p, d)
         IN  [last |-> IF q = 0 THEN 0 ELSE q + Len(d) - 1,
              repl |-> SubSeq(s, p + Len(d), q - 1)]

\* Sub with only the first match replaced
RECURSIVE SubFirstOnly(_, _, _)
SubFirstOnly(rule, s, p) ==
  IF p > Len(s) THEN <<>>
  ELSE LET m == MatchAt(rule, s, p)
       IN  IF m.last = 0
           THEN <<s[p]>> \o SubFirstOnly(rule, s, p + 1)
           ELSE m.repl \o SubSeq(s, m.last + 1, Len(s))

\* re.sub(pattern, repl, text), scanning from position p
RECURSIVE Sub(_, _, _)
Sub(rule, s, p) ==
  IF p > Len(s) THEN <<>>
  ELSE LET m == MatchAt(rule, s, p)
       IN  IF m.last = 0
           THEN <<s[p]>> \o Sub(rule, s, p + 1)
           ELSE m.repl \o Sub(rule, s, m.last + 1)

RECURSIVE ApplyRules(_, _)
ApplyRules(rules, s) ==
  IF rules = <<>> THEN s ELSE ApplyRules(Tail(rules), Sub(Head(rules), s, 1))

StripInlineMd(s) == ApplyRules(Rules, s)

----------------------------------------------------------------------------
\* The documents the scanner is run on: up to MaxLines lines of LineSet.

LineSet ==
  { <<>>,
    <<" ">>,
    <<"#", " ", "|">>,
    <<"#", "#", " ", "a">>,
    <<"#", " ">>,
    <<"-", "-", "-">>,
    Fence,
    <<"a", "|", "b">>,
    <<"|", "-", "|">>,
    <<"-", "|", "x">>,
    <<"-", " ", "a">>,
    <<" ", "*", " ", "b">>,
    <<"-", " ">>,
    <<"-", " ", "|">>,
    <<"1", ".", " ", "c">>,
    <<"1", ".", " ">>,
    <<"a">>,
    <<" ", "b", " ">>,
    <<BT, BT, BT, "|">>,
    <<"+", " ", "1", ".", " ", "c">> }

Docs == UNION {[1..n -> LineSet] : n \in 1..MaxLines}

VARIABLES
  lines,    \* lines = text.split("\n")
  i,        \* the cursor of the main loop
  blocks,   \* the blocks appended so far
  pc,       \* "scan": in the main loop; "done": returned; "error": raised
  iter,     \* number of main-loop iterations executed
  spans,    \* per block: the cursor where it began, the number of source
            \* lines its accumulator accounts for, and the branch that built it
  skipped,  \* the lines passed over by the blank-line branch
  src,      \* the argument of the first strip_inline_md call
  text,     \* the string strip_inline_md is applied to next
  once,     \* the result of the first call
  passes    \* number of strip_inline_md calls made

parseVars == <<lines, i, blocks, pc, iter, spans, skipped>>
stripVars == <<src, text, once, passes>>
vars == <<lines, i, blocks, pc, iter, spans, skipped, src, text, once, passes>>

Init ==
  /\ lines \in Docs
  /\ i = 0
  /\ blocks = <<>>
  /\ pc = "scan"
  /\ iter = 0
  /\ spans = <<>>
  /\ skipped = {}
  /\ src = <<>>
  /\ text = <<>>
  /\ once = <<>>
  /\ passes = 0

\* while i < len(lines): ... one iteration taking branch b
Iteration(b) ==
  /\ pc = "scan"
  /\ i < Len(lines)
  /\ iter < MaxIter
  /\ Dispatch(lines, i) = b
  /\ iter' = iter + 1
  /\ UNCHANGED <<lines, stripVars>>

Emit(block, taken, b) ==
  /\ blocks' = Append(blocks, block)
  /\ spans' = Append(spans, [first |-> i, taken |-> taken, rule |-> b])

Blank ==
  /\ Iteration("blank")
  /\ i' = i + 1
  /\ skipped' = skipped \cup {i}
  /\ UNCHANGED <<blocks, pc, spans>>

Heading ==
  /\ Iteration("heading")
  /\ LET m == HeadingGroups(lines[i + 1])
     IN  Emit(MDBlock("heading", StripWs(m.text), m.level), 1, "heading")
  /\ i' = i + 1
  /\ UNCHANGED <<pc, skipped>>

Hr ==
  /\ Iteration("hr")
  /\ Emit(MDBlock("hr", <<>>, 0), 1, "hr")
  /\ i' = i + 1
  /\ UNCHANGED <<pc, skipped>>

Code ==
  /\ Iteration("code")
  /\ LET r == CodeLoop(lines, i + 1, <<>>)
     IN  /\ i' = r.i + 1
         /\ Emit(MDBlock("code", Join(r.code_lines, <<"\n">>), 0),
                 1 + Len(r.code_lines) + (IF r.i < Len(lines) THEN 1 ELSE 0), "code")
  /\ UNCHANGED <<pc, skipped>>

Table ==
  /\ Iteration("table")
  /\ LET r == TableLoop(lines, i + 2, <<ParseTableRow(lines[i + 1])>>)
     IN  /\ i' = r.i
         /\ Emit(MDBlock("table", r.table_rows, 0), 1 + Len(r.table_rows), "table")
  /\ UNCHANGED <<pc, skipped>>

UList ==
  /\ Iteration("ulist")
  /\ LET r == UListLoop(lines, i, <<>>)
     IN  /\ i' = r.i
         /\ IF r.ok
            THEN Emit(MDBlock("list", r.list_items, 0), Len(r.list_items), "ulist")
                 /\ pc' = pc
            ELSE pc' = "error" /\ UNCHANGED <<blocks, spans>>
  /\ UNCHANGED skipped

OList ==
  /\ Iteration("olist")
  /\ LET r == OListLoop(lines, i, <<>>)
     IN  /\ i' = r.i
         /\ IF r.ok
            THEN Emit(MDBlock("list", r.list_items, 0), Len(r.list_items), "olist")
                 /\ pc' = pc
            ELSE pc' = "error" /\ UNCHANGED <<blocks, spans>>
  /\ UNCHANGED skipped

Paragraph ==
  /\ Iteration("paragraph")
  /\ LET r == ParaLoop(lines, i, <<>>)
     IN  /\ i' = r.i
         /\ IF r.para_lines # <<>>
            THEN Emit(MDBlock("paragraph", Join(r.para_lines, <<" ">>), 0),
                      Len(r.para_lines), "paragraph")
            ELSE UNCHANGED <<blocks, spans>>
  /\ UNCHANGED <<pc, skipped>>

\* the loop condition fails: return blocks
Return ==
  /\ pc = "scan"
  /\ i >= Len(lines)
  /\ pc' = "done"
  /\ UNCHANGED <<lines, i, blocks, iter, spans, skipped, stripVars>>

Next ==
  \/ Blank
  \/ Heading
  \/ Hr
  \/ Code
  \/ Table
  \/ UList
  \/ OList
  \/ Paragraph
  \/ Return

Spec == Init /\ [][Next]_vars

----------------------------------------------------------------------------
\* strip_inline_md applied to a string, then to its own result.  The strings
\* are the concatenations of up to MaxFrags fragments.

Frags ==
  { <<"<", "b", "r">>,
    <<">">>,
    <<"<", "b", "r", ">">>,
    <<"<", "B", "R", " ", "/", ">">>,
    <<"<", "a", " ", "x", ">">>,
    <<"<", "/", "a", ">">>,
    <<"y">>,
    <<" ">>,
    <<NL>>,
    <<"*">>,
    <<"*", "*">>,
    <<"_">>,
    <<BT>>,
    <<"[", "t", "]">>,
    <<"(", "u", ")">> }

RECURSIVE Flatten(_)
Flatten(fs) == IF fs = <<>> THEN <<>> ELSE Head(fs) \o Flatten(Tail(fs))

Texts == {Flatten(fs) : fs \in UNION {[1..n -> Frags] : n \in 0..MaxFrags}}

StripInit ==
  /\ src \in Texts
  /\ text = src
  /\ once = <<>>
  /\ passes = 0
  /\ lines = << <<>> >>
  /\ i = 0
  /\ blocks = <<>>
  /\ pc = "idle"
  /\ iter = 0
  /\ spans = <<>>
  /\ skipped = {}

\* text = strip_inline_md(text)
StripCall ==
  /\ passes < 2
  /\ text' = StripInlineMd(text)
  /\ once' = IF passes = 0 THEN text' ELSE once
  /\ passes' = passes + 1
  /\ UNCHANGED <<src, parseVars>>

StripNext == StripCall

StripSpec == StripInit /\ [][StripNext]_vars

----------------------------------------------------------------------------
\* Vocabulary of the properties.

At(k) == lines[k + 1]
NumLines == Len(lines)
First(b) == spans[b].first
End(b) == spans[b].first + spans[b].taken
BlocksOf(kind) == {b \in 1..Len(blocks) : blocks[b].kind = kind}

\* the blocks whose source range holds line k
Covering(k) == {b \in 1..Len(spans) : First(b) <= k /\ k < End(b)}

\* line k is one the main loop turns into a heading, rule, code fence,
\* table or list item
StartsConstruct(k) ==
  \/ HeadingMatch(At(k))
  \/ HrMatch(At(k))
  \/ FenceMatch(At(k))
  \/ TableMatch(lines, k)
  \/ UListPrefix(At(k))
  \/ OListPrefix(At(k))

\* C1: parse_md never ends in an error state.
C1_NeverFails == pc # "error"

\* C2: every iteration of the main loop that completes strictly advances
\* the cursor.
C2_IterationAdvances == [][iter' = iter + 1 /\ pc' = "scan" => i' > i]_vars

\* C3: the source ranges of the blocks are non-empty, disjoint, in source
\* order and inside the input; every line the cursor has passed is in
\* exactly one range or is a skipped blank line; the cursor is never behind
\* a consumed line and never moves backwards.
C3_RangesPartition ==
  pc # "error" =>
    /\ Len(spans) = Len(blocks)
    /\ \A b \in 1..Len(spans) : spans[b].taken >= 1 /\ End(b) <= NumLines
    /\ \A b \in 1..(Len(spans) - 1) : End(b) <= First(b + 1)
    /\ \A b \in 1..Len(spans) : End(b) <= i
    /\ \A k \in skipped : k < i
    /\ \A k \in 0..(NumLines - 1) :
         IF k < i
         THEN \/ k \in skipped /\ BlankLine(At(k)) /\ Covering(k) = {}
              \/ k \notin skipped /\ Cardinality(Covering(k)) = 1
         ELSE k \notin skipped /\ Covering(k) = {}

\* C3: the ranges partition the consumed lines in every state, and the
\* cursor never moves backwards.
C3_Coverage == []C3_RangesPartition /\ [][i' >= i]_vars

\* two blocks separated by a skipped blank line
C3_Witness ==
  /\ pc = "done"
  /\ Len(blocks) = 2
  /\ skipped = {1}

\* C4: the block that begins at a line is the one of the first rule, in the
\* order heading, hr, fenced code, table, unordered list, ordered list,
\* paragraph, that matches the line.
C4_Precedence ==
  \A b \in 1..Len(blocks) :
    LET f == First(b)
        l == At(f)
        h == HeadingMatch(l)
        r == HrMatch(l)
        c == FenceMatch(l)
        t == TableMatch(lines, f)
        u == UListPrefix(l)
        o == OListPrefix(l)
        kind == blocks[b].kind
    IN  /\ ~BlankLine(l)
        /\ h => kind = "heading"
        /\ ~h /\ r => kind = "hr"
        /\ ~h /\ ~r /\ c => kind = "code"
        /\ ~h /\ ~r /\ ~c /\ t => kind = "table"
        /\ ~h /\ ~r /\ ~c /\ ~t /\ u => kind = "list" /\ spans[b].rule = "ulist"
        /\ ~h /\ ~r /\ ~c /\ ~t /\ ~u /\ o => kind = "list" /\ spans[b].rule = "olist"
        /\ ~h /\ ~r /\ ~c /\ ~t /\ ~u /\ ~o => kind = "paragraph"

\* a heading line that holds a pipe and is followed by a separator line, and
\* a list line that holds a pipe and is followed by a separator line
C4_Witness ==
  /\ \E b \in BlocksOf("heading") : TableMatch(lines, First(b))
  /\ \E b \in BlocksOf("table") : UListPrefix(At(First(b)))

\* the whole line is made of blanks, '-', ':' and '|' and holds a pipe
WholeLineSeparator(line) == AllIn(line, 1, Len(line), SepClass) /\ HasPipe(line)

\* C5: a table block starts at line i only if line i holds a pipe and line
\* i+1 exists and is, as a whole, a separator line.
C5_TableNeedsSeparator ==
  \A b \in BlocksOf("table") :
    /\ HasPipe(At(First(b)))
    /\ First(b) + 1 < NumLines
    /\ WholeLineSeparator(At(First(b) + 1))

\* C6: a paragraph is a run of non-blank lines none of which starts another
\* construct, it stops only at end-of-input, at a blank line or before a
\* line that starts another construct, which is then emitted as the next
\* block, and its content is the trimmed lines joined by single spaces.
C6_ParagraphRun ==
  \A b \in BlocksOf("paragraph") :
    /\ \A k \in First(b)..(End(b) - 1) : ~BlankLine(At(k)) /\ ~StartsConstruct(k)
    /\ End(b) < NumLines => BlankLine(At(End(b))) \/ StartsConstruct(End(b))
    /\ blocks[b].content =
         Join([k \in 1..spans[b].taken |-> StripWs(At(First(b) + k - 1))], <<" ">>)
    /\ (pc = "done" /\ End(b) < NumLines /\ ~BlankLine(At(End(b))))
          => b < Len(blocks) /\ First(b + 1) = End(b)

\* the line that closes the fence opened at line f: the first fence line
\* after f, or end-of-input
FenceClose(f) ==
  LET S == {k \in (f + 1)..(NumLines - 1) : FenceMatch(At(k))}
  IN  IF S = {} THEN NumLines ELSE Min(S)

\* C7: a code block holds, unchanged and in order, every line between its
\* opening fence and the next fence line or end-of-input, joined by newline;
\* no other block starts on those lines or on the closing fence, none of
\* them is skipped as blank, and an unterminated fence makes it the last one.
C7_FenceCapture ==
  \A b \in BlocksOf("code") :
    LET f == First(b)
        c == FenceClose(f)
    IN  /\ FenceMatch(At(f))
        /\ blocks[b].content = Join(SubSeq(lines, f + 2, c), <<"\n">>)
        /\ \A d \in 1..Len(blocks) : d # b => ~(f <= First(d) /\ First(d) <= c)
        /\ \A k \in skipped : ~(f <= k /\ k <= c)
        /\ i > c
        /\ c = NumLines => b = Len(blocks)

\* an unterminated fence that holds a blank line and a heading line
C7_Witness ==
  \E b \in BlocksOf("code") :
    /\ spans[b].taken = 3
    /\ BlankLine(At(First(b) + 1))
    /\ HeadingMatch(At(First(b) + 2))
    /\ blocks[b].content = <<"\n">> \o At(First(b) + 2)

\* the list style of a line
Style(line) ==
  IF UListPrefix(line) THEN "unordered"
  ELSE IF OListPrefix(line) THEN "ordered"
  ELSE "none"

\* number of leading blanks of a line
LeadingWs(line) ==
  LET S == {k \in 1..Len(line) : line[k] \notin WS}
  IN  IF S = {} THEN Len(line) ELSE Min(S) - 1

\* the text of a list line: what follows the marker ('-', '*', '+', or the
\* digits and their '.'), trimmed
ItemText(line) ==
  LET n == LeadingWs(line)
      D == {k \in (n + 1)..Len(line) : line[k] \notin Digit}
      m == IF Style(line) = "unordered" THEN n + 1 ELSE Min(D)
  IN  StripWs(SubSeq(line, m + 1, Len(line)))

RowCells(line) ==
  LET s == StripWs(line)
      a == IF s # <<>> /\ s[1] = "|" THEN 2 ELSE 1
      z == IF Len(s) >= a /\ s[Len(s)] = "|" THEN Len(s) - 1 ELSE Len(s)
      P == {k \in a..z : s[k] = "|"}
      cut(n) == IF n = 0 THEN a - 1
                ELSE IF n > Cardinality(P) THEN z + 1
                ELSE CHOOSE k \in P : Cardinality({q \in P : q < k}) = n - 1
  IN  [n \in 1..(Cardinality(P) + 1) |-> StripWs(SubSeq(s, cut(n - 1) + 1, cut(n) - 1))]

\* C9: a table block has the header's cells as row 0, no row for the
\* separator line, and one row per line of the maximal run of non-blank
\* lines holding a pipe that follows the separator; rows keep their own width.
C9_TableRows ==
  \A b \in BlocksOf("table") :
    LET f == First(b)
        rows == blocks[b].content
        n == Len(rows)
    IN  /\ n >= 1
        /\ spans[b].taken = n + 1
        /\ rows[1] = RowCells(At(f))
        /\ \A k \in 2..n :
             /\ HasPipe(At(f + k)) /\ ~BlankLine(At(f + k))
             /\ rows[k] = RowCells(At(f + k))
        /\ f + n + 1 < NumLines => ~HasPipe(At(f + n + 1)) \/ BlankLine(At(f + n + 1))
        /\ i >= f + n + 1

\* a header of two cells, a separator and a body row of one trimmed cell
C9_Witness ==
  \E b \in BlocksOf("table") :
    /\ Len(blocks[b].content) = 2
    /\ Len(blocks[b].content[1]) = 2
    /\ blocks[b].content[2] = << <<"-">> >>

\* the markdown delimiter characters
DelimChars == {"*", "_", BT, "[", "]", "(", ")"}

NoDelims(s) == \A k \in 1..Len(s) : s[k] \notin DelimChars

\* every '<' of s begins a complete line-break tag
OnlyBrTags(s) == \A k \in 1..Len(s) : s[k] = "<" => BrEnd(s, k) # 0

====
